---- MODULE Spec2Model ----
(***************************************************************************)
(* Clinical-trial retrieval chatbot: the index build of TrialIndexer       *)
(* (indexer.py) and the BM25 retrieval of RAGChatbot (chatbot.py).         *)
(*                                                                         *)
(* A text is a sequence of characters, a character a one-character string. *)
(* A score is a fixed-point number in units of 1/ScoreScale.               *)
(***************************************************************************)
EXTENDS Integers, Sequences, FiniteSets, TLC

\* ------------------------------------------------------------------------
\* Characters: the classes Python's str methods distinguish.
\* ------------------------------------------------------------------------

AsciiLower == {"a", "b", "c", "d", "e", "f", "g", "h", "i", "j", "k", "l", "m", "n", "o", "p", "q", "r", "s", "t", "u", "v", "w", "x", "y", "z"}

AsciiUpper == {"A", "B", "C", "D", "E", "F", "G", "H", "I", "J", "K", "L", "M", "N", "O", "P", "Q", "R", "S", "T", "U", "V", "W", "X", "Y", "Z"}

AsciiDigit == {"0", "1", "2", "3", "4", "5", "6", "7", "8", "9"}

\* letters outside ASCII, for which str.isalnum() is true as well
NonAsciiLower == {"é"}

NonAsciiUpper == {"É"}

\* str.split() without arguments splits on these
Whitespace == {" ", "\n", "\t"}

UpperSeq == <<"A", "B", "C", "D", "E", "F", "G", "H", "I", "J", "K", "L", "M", "N", "O", "P", "Q", "R", "S", "T", "U", "V", "W", "X", "Y", "Z">> \o <<"É">>

LowerSeq == <<"a", "b", "c", "d", "e", "f", "g", "h", "i", "j", "k", "l", "m", "n", "o", "p", "q", "r", "s", "t", "u", "v", "w", "x", "y", "z">> \o <<"é">>

\* c.isalnum()
isalnum(c) == c \in AsciiLower \cup AsciiUpper \cup AsciiDigit \cup NonAsciiLower \cup NonAsciiUpper

\* the characters the specification's tokenizer keeps: ASCII letters and digits
IsAsciiAlnum(c) == c \in AsciiLower \cup AsciiUpper \cup AsciiDigit

\* str.lower() on one character
LowerChar(c) ==
    IF \E i \in 1..Len(UpperSeq) : UpperSeq[i] = c
    THEN LowerSeq[CHOOSE i \in 1..Len(UpperSeq) : UpperSeq[i] = c]
    ELSE c

\* text.lower()
lower(text) == [i \in 1..Len(text) |-> LowerChar(text[i])]

\* text.split(): the maximal runs of non-whitespace characters, in order
RECURSIVE SplitFrom(_, _, _)
SplitFrom(text, i, cur) ==
    IF i > Len(text)
    THEN IF cur = <<>> THEN <<>> ELSE <<cur>>
    ELSE IF text[i] \in Whitespace
         THEN IF cur = <<>>
              THEN SplitFrom(text, i + 1, <<>>)
              ELSE <<cur>> \o SplitFrom(text, i + 1, <<>>)
         ELSE SplitFrom(text, i + 1, Append(cur, text[i]))

split(text) == SplitFrom(text, 1, <<>>)

\* ''.join(c for c in token if c.isalnum())
StripNonAlnum(token) == SelectSeq(token, isalnum)

IsNonEmpty(t) == t # <<>>

\* a join that puts each part on a line of its own
RECURSIVE JoinNewline(_)
JoinNewline(parts) ==
    IF parts = <<>> THEN <<>>
    ELSE IF Len(parts) = 1 THEN parts[1]
    ELSE parts[1] \o <<"\n">> \o JoinNewline(Tail(parts))

\* " ".join(parts)
RECURSIVE JoinSpace(_)
JoinSpace(parts) ==
    IF parts = <<>> THEN <<>>
    ELSE IF Len(parts) = 1 THEN parts[1]
    ELSE parts[1] \o <<" ">> \o JoinSpace(Tail(parts))

\* ------------------------------------------------------------------------
\* The two tokenizers.
\* ------------------------------------------------------------------------

\* a tokenizer that forgets to lower-case
TokenizeNoLower(text) ==
    SelectSeq([i \in 1..Len(split(text)) |-> StripNonAlnum(split(text)[i])], IsNonEmpty)

\* a tokenizer that keeps the tokens that became empty
TokenizeKeepEmpty(text) ==
    [i \in 1..Len(split(lower(text))) |-> StripNonAlnum(split(lower(text))[i])]

\* a tokenizer that blanks a non-alphanumeric character instead of removing it
BlankNonAlnum(token) == [i \in 1..Len(token) |-> IF isalnum(token[i]) THEN token[i] ELSE " "]

TokenizeBlanking(text) ==
    SelectSeq([i \in 1..Len(split(lower(text))) |-> BlankNonAlnum(split(lower(text))[i])], IsNonEmpty)

\* TrialIndexer.tokenize
TrialIndexer_tokenize(text) ==
    LET tokens1 == split(lower(text))
        tokens2 == [i \in 1..Len(tokens1) |-> StripNonAlnum(tokens1[i])]
    IN  SelectSeq(tokens2, IsNonEmpty)

\* RAGChatbot.tokenize
RAGChatbot_tokenize(text) ==
    LET tokens1 == split(lower(text))
        tokens2 == [i \in 1..Len(tokens1) |-> StripNonAlnum(tokens1[i])]
    IN  SelectSeq(tokens2, IsNonEmpty)

\* ------------------------------------------------------------------------
\* Trial records and TrialIndexer.create_trial_text.
\* ------------------------------------------------------------------------

\* the fields create_trial_text renders, in its order, with their labels
TrialTextFields == <<
    [field |-> "NCTId", label |-> <<"T", "r", "i", "a", "l", " ", "I", "D">>],
    [field |-> "BriefTitle", label |-> <<"T", "i", "t", "l", "e">>],
    [field |-> "OfficialTitle", label |-> <<"O", "f", "f", "i", "c", "i", "a", "l", " ", "T", "i", "t", "l", "e">>],
    [field |-> "OverallStatus", label |-> <<"S", "t", "a", "t", "u", "s">>],
    [field |-> "Phase", label |-> <<"P", "h", "a", "s", "e">>],
    [field |-> "StudyType", label |-> <<"S", "t", "u", "d", "y", " ", "T", "y", "p", "e">>],
    [field |-> "Conditions", label |-> <<"C", "o", "n", "d", "i", "t", "i", "o", "n", "s">>],
    [field |-> "Interventions", label |-> <<"I", "n", "t", "e", "r", "v", "e", "n", "t", "i", "o", "n", "s">>],
    [field |-> "EligibilityCriteria", label |-> <<"E", "l", "i", "g", "i", "b", "i", "l", "i", "t", "y">>],
    [field |-> "HealthyVolunteers", label |-> <<"H", "e", "a", "l", "t", "h", "y", " ", "V", "o", "l", "u", "n", "t", "e", "e", "r", "s">>],
    [field |-> "Sex", label |-> <<"S", "e", "x">>],
    [field |-> "MinimumAge", label |-> <<"M", "i", "n", "i", "m", "u", "m", " ", "A", "g", "e">>],
    [field |-> "MaximumAge", label |-> <<"M", "a", "x", "i", "m", "u", "m", " ", "A", "g", "e">>],
    [field |-> "StandardAges", label |-> <<"A", "g", "e", "s">>],
    [field |-> "PrimaryContactName", label |-> <<"C", "o", "n", "t", "a", "c", "t">>],
    [field |-> "PrimaryContactEmail", label |-> <<"E", "m", "a", "i", "l">>],
    [field |-> "PrincipalInvestigatorName", label |-> <<"P", "I">>],
    [field |-> "PrincipalInvestigatorAffiliation", label |-> <<"A", "f", "f", "i", "l", "i", "a", "t", "i", "o", "n">>],
    [field |-> "USLocations", label |-> <<"L", "o", "c", "a", "t", "i", "o", "n", "s">>],
    [field |-> "Country", label |-> <<"C", "o", "u", "n", "t", "r", "y">>],
    [field |-> "StartDate", label |-> <<"S", "t", "a", "r", "t", " ", "D", "a", "t", "e">>],
    [field |-> "CompletionDate", label |-> <<"C", "o", "m", "p", "l", "e", "t", "i", "o", "n", " ", "D", "a", "t", "e">>],
    [field |-> "PrimaryOutcomes", label |-> <<"P", "r", "i", "m", "a", "r", "y", " ", "O", "u", "t", "c", "o", "m", "e", "s">>],
    [field |-> "SecondaryOutcomes", label |-> <<"S", "e", "c", "o", "n", "d", "a", "r", "y", " ", "O", "u", "t", "c", "o", "m", "e", "s">>]
>>

\* a JSON null, the value None of a present key; no text has this element
JsonNull == <<"null">>

\* the truth value of trial.get(field): a trial record is a function from its
\* present keys to texts; a missing key (None), a null and the empty string
\* are false
HasValue(trial, field) ==
    field \in DOMAIN trial /\ trial[field] # <<>> /\ trial[field] # JsonNull

\* trial['EligibilityCriteria'].replace('\n', ' ')
ReplaceNewline(text) == [i \in 1..Len(text) |-> IF text[i] = "\n" THEN " " ELSE text[i]]

\* the f-string appended for one field
TrialTextPart(trial, k) ==
    LET f == TrialTextFields[k].field
        value == IF f = "EligibilityCriteria" THEN ReplaceNewline(trial[f]) ELSE trial[f]
    IN  TrialTextFields[k].label \o <<":", " ">> \o value

RECURSIVE TrialTextParts(_, _)
TrialTextParts(trial, k) ==
    IF k > Len(TrialTextFields) THEN <<>>
    ELSE IF HasValue(trial, TrialTextFields[k].field)
         THEN <<TrialTextPart(trial, k)>> \o TrialTextParts(trial, k + 1)
         ELSE TrialTextParts(trial, k + 1)

\* a text builder that writes a placeholder for a record without fields
CreateTrialTextOrPlaceholder(trial) ==
    IF TrialTextParts(trial, 1) = <<>>
    THEN <<"u", "n", "k", "n", "o", "w", "n">>
    ELSE JoinSpace(TrialTextParts(trial, 1))

\* TrialIndexer.create_trial_text
create_trial_text(trial) == JoinSpace(TrialTextParts(trial, 1))

\* ------------------------------------------------------------------------
\* rank_bm25.BM25Okapi, as build_index constructs it and
\* retrieve_relevant_trials queries it (defaults k1 = 1.5, b = 0.75,
\* epsilon = 0.25).  A failed construction raises ZeroDivisionError.
\* ------------------------------------------------------------------------

\* 10^4 * ln(n + 0.5) for n = 0, 1, 2, ..., rounded
LnHalfTable == <<-6931, 4055, 9163, 12528, 15041, 17047, 18718, 20149, 21401, 22513, 23514>>

\* math.log(n + 0.5)
LnHalf(n) == LnHalfTable[n + 1]

RECURSIVE SumOver(_, _)
SumOver(S, f) ==
    IF S = {} THEN 0
    ELSE LET x == CHOOSE y \in S : TRUE IN f[x] + SumOver(S \ {x}, f)

\* the words of a document
Words(document) == {document[i] : i \in 1..Len(document)}

\* frequencies[word] of _initialize
TermFreq(document, word) == Cardinality({i \in 1..Len(document) : document[i] = word})

\* the keys of nd: every word of every document
Vocabulary(corpus) == UNION {Words(corpus[d]) : d \in 1..Len(corpus)}

\* nd[word]: the number of documents containing word
DocFreq(corpus, word) == Cardinality({d \in 1..Len(corpus) : word \in Words(corpus[d])})

\* num_doc: the total number of tokens
NumDoc(corpus) == SumOver(1..Len(corpus), [d \in 1..Len(corpus) |-> Len(corpus[d])])

\* the idf of _calc_idf before the negative ones are replaced
RawIdf(corpus, word) ==
    LnHalf(Len(corpus) - DocFreq(corpus, word)) - LnHalf(DocFreq(corpus, word))

\* _calc_idf: self.average_idf = idf_sum / len(self.idf)
AverageIdf(corpus) ==
    SumOver(Vocabulary(corpus), [w \in Vocabulary(corpus) |-> RawIdf(corpus, w)])
        \div Cardinality(Vocabulary(corpus))

\* an idf that keeps the negative values
CalcIdfRaw(corpus) == [w \in Vocabulary(corpus) |-> RawIdf(corpus, w)]

\* an idf that raises the negative values to zero
CalcIdfClamped(corpus) ==
    [w \in Vocabulary(corpus) |-> IF RawIdf(corpus, w) < 0 THEN 0 ELSE RawIdf(corpus, w)]

\* _calc_idf: a negative idf becomes eps = epsilon * average_idf
CalcIdf(corpus) ==
    LET eps == AverageIdf(corpus) \div 4
    IN  [w \in Vocabulary(corpus) |->
            LET idf == RawIdf(corpus, w) IN IF idf < 0 THEN eps ELSE idf]

\* the constructor divides by corpus_size (avgdl) and by len(idf) (average_idf)
BM25Raises(corpus) == Len(corpus) = 0 \/ Vocabulary(corpus) = {}

\* BM25Okapi(corpus), for a corpus the constructor accepts
BM25Okapi(corpus) ==
    [corpus_size |-> Len(corpus),
     num_doc     |-> NumDoc(corpus),
     doc_len     |-> [d \in 1..Len(corpus) |-> Len(corpus[d])],
     doc_freqs   |-> [d \in 1..Len(corpus) |->
                        [w \in Words(corpus[d]) |-> TermFreq(corpus[d], w)]],
     idf         |-> CalcIdf(corpus)]

\* a scoring that takes a term no document holds to occur once, at weight 1
TermScoreUnseen(bm25, q, d) ==
    LET q_freq == IF q \in DOMAIN bm25.doc_freqs[d] THEN bm25.doc_freqs[d][q] ELSE 1
        idf    == IF q \in DOMAIN bm25.idf THEN bm25.idf[q] ELSE 10000
    IN  (idf * 20 * q_freq * bm25.num_doc)
          \div (8 * q_freq * bm25.num_doc + 3 * bm25.num_doc
                  + 9 * bm25.doc_len[d] * bm25.corpus_size)

\* one query term's addend for document d (1-based) in get_scores:
\*   idf * q_freq * (k1 + 1) / (q_freq + k1 * (1 - b + b * doc_len / avgdl))
\* with avgdl = num_doc / corpus_size, numerator and denominator times 8 * num_doc
TermScore(bm25, q, d) ==
    LET q_freq == IF q \in DOMAIN bm25.doc_freqs[d] THEN bm25.doc_freqs[d][q] ELSE 0
        idf    == IF q \in DOMAIN bm25.idf THEN bm25.idf[q] ELSE 0
    IN  (idf * 20 * q_freq * bm25.num_doc)
          \div (8 * q_freq * bm25.num_doc + 3 * bm25.num_doc
                  + 9 * bm25.doc_len[d] * bm25.corpus_size)

RECURSIVE DocScore(_, _, _)
DocScore(bm25, query, d) ==
    IF query = <<>> THEN 0
    ELSE TermScore(bm25, Head(query), d) + DocScore(bm25, Tail(query), d)

\* BM25Okapi.get_scores: one score per document
get_scores(bm25, query) == [d \in 1..bm25.corpus_size |-> DocScore(bm25, query, d)]

\* ------------------------------------------------------------------------
\* RAGChatbot.retrieve_relevant_trials.
\* ------------------------------------------------------------------------

\* a descending sort that puts an index before the indices of equal score
InsertBeforeTies(order, i, scores) ==
    LET p == Cardinality({j \in 1..Len(order) : scores[order[j] + 1] > scores[i + 1]})
    IN  SubSeq(order, 1, p) \o <<i>> \o SubSeq(order, p + 1, Len(order))

\* one step of the stable descending sort: index i (0-based) goes behind every
\* index already placed whose score is not smaller
InsertDesc(order, i, scores) ==
    LET p == Cardinality({j \in 1..Len(order) : scores[order[j] + 1] >= scores[i + 1]})
    IN  SubSeq(order, 1, p) \o <<i>> \o SubSeq(order, p + 1, Len(order))

RECURSIVE SortedFrom(_, _, _)
SortedFrom(order, i, scores) ==
    IF i >= Len(scores) THEN order
    ELSE SortedFrom(InsertDesc(order, i, scores), i + 1, scores)

\* a sort that numbers the documents from 1
SortedIndicesFromOne(scores) ==
    [k \in 1..Len(scores) |-> SortedFrom(<<>>, 0, scores)[k] + 1]

\* an ascending sort read backwards, which turns the ties around as well
SortedIndicesBackwards(scores) ==
    LET asc == SortedFrom(<<>>, 0, [d \in 1..Len(scores) |-> 0 - scores[d]])
    IN  [k \in 1..Len(asc) |-> asc[Len(asc) + 1 - k]]

\* sorted(range(len(scores)), key=lambda i: scores[i], reverse=True)
SortedIndices(scores) == SortedFrom(<<>>, 0, scores)

\* a slice that returns one element too many
SliceOneMore(s, n) == SubSeq(s, 1, IF n + 1 < Len(s) THEN n + 1 ELSE Len(s))

\* s[:n], negative n counting from the end
SliceTo(s, n) ==
    IF n >= 0
    THEN SubSeq(s, 1, IF n < Len(s) THEN n ELSE Len(s))
    ELSE SubSeq(s, 1, IF Len(s) + n > 0 THEN Len(s) + n ELSE 0)

\* the outcome of a call: a returned value or a raised exception
Returned(v) == [raised |-> "none", value |-> v]

Raised(e) == [raised |-> e, value |-> <<>>]

\* RAGChatbot.retrieve_relevant_trials(query, n_results), without the timing
retrieve_relevant_trials(bot, query, n_results) ==
    LET tokenized_query == RAGChatbot_tokenize(query)
        scores          == get_scores(bot.bm25, tokenized_query)
        top_n_indices   == SliceTo(SortedIndices(scores), n_results)
    IN  IF \E k \in 1..Len(top_n_indices) : top_n_indices[k] >= Len(bot.trials)
        THEN Raised("IndexError")
        ELSE Returned([k \in 1..Len(top_n_indices) |->
                         [trial |-> bot.trials[top_n_indices[k] + 1],
                          score |-> scores[top_n_indices[k] + 1],
                          index |-> top_n_indices[k]]])

\* ------------------------------------------------------------------------
\* Bounds and the inputs drawn within them.
\* ------------------------------------------------------------------------

\* the longest JSON trial list
MaxTrials == 3

\* the largest n_results
MaxK == 3

\* the longest text given to the tokenizers on their own
MaxTextLen == 4

\* Python's None
None == [none |-> TRUE]

\* trial records: with an NCTId, with an empty NCTId and punctuation, with no
\* field at all, and with the NCTId of the first and a line break
SampleTrials == {
    [NCTId |-> <<"N", "C", "T", "1">>, BriefTitle |-> <<"P", "T", "S", "D", " ", "t", "r", "i", "a", "l">>],
    [NCTId |-> <<>>, BriefTitle |-> <<"C", "a", "n", "c", "e", "r", " ", "t", "r", "i", "a", "l", "!">>],
    <<>>,
    [NCTId |-> <<"N", "C", "T", "1">>, EligibilityCriteria |-> <<"a", "d", "u", "l", "t", "\n", "P", "T", "S", "D">>]
}

RECURSIVE SeqsUpTo(_, _)
SeqsUpTo(S, n) ==
    IF n = 0 THEN {<<>>}
    ELSE LET shorter == SeqsUpTo(S, n - 1)
         IN  shorter \cup {Append(s, x) : s \in {t \in shorter : Len(t) = n - 1}, x \in S}

TrialLists == SeqsUpTo(SampleTrials, MaxTrials)

\* query texts: empty, only punctuation, matching, unknown, and mixed
SampleQueries == {
    <<>>,
    <<"?", "!">>,
    <<"P", "T", "S", "D", " ", "t", "r", "i", "a", "l">>,
    <<"z", "z", "z">>,
    <<"T", "r", "i", "a", "l", "?", " ", "c", "a", "n", "c", "e", "r">>
}

KValues == (0 - 1)..MaxK

TokAlphabet == {"a", "B", "1", "-", " ", "\n", "é", "É"}

Texts == SeqsUpTo(TokAlphabet, MaxTextLen)

\* ------------------------------------------------------------------------
\* State.
\* ------------------------------------------------------------------------

VARIABLES
    json_trials,      \* the trial list in the JSON file given to TrialIndexer
    indexer,          \* the TrialIndexer: trials, tokenized_corpus, bm25, and
                      \* what build_index raised
    files,            \* bm25_index.pkl, tokenized_corpus.pkl, trials_data.pkl
    chatbot,          \* the RAGChatbot, None until it is constructed
    result,           \* the last call on the chatbot and its outcome
    text,             \* the text given to the tokenizers on their own
    indexer_tokens,   \* TrialIndexer.tokenize(text)
    chatbot_tokens,   \* RAGChatbot.tokenize(text)
    rejoined_tokens,  \* TrialIndexer.tokenize(" ".join(indexer_tokens))
    tpc,              \* how far the tokenizer run has come
    remembered,       \* an earlier call of retrieve_relevant_trials and its outcome
    threads,          \* the threads inside RAGChatbot.chat: position and locals
    saving,           \* how far a running save_index has come
    loading           \* a running RAGChatbot.__init__: position and what it has read

sysVars == <<json_trials, indexer, files, chatbot, result>>

tokVars == <<text, indexer_tokens, chatbot_tokens, rejoined_tokens, tpc>>

extVars == <<remembered, threads, saving, loading>>

vars == <<json_trials, indexer, files, chatbot, result,
          text, indexer_tokens, chatbot_tokens, rejoined_tokens, tpc,
          remembered, threads, saving, loading>>

Absent == [exists |-> FALSE, data |-> <<>>]

Written(d) == [exists |-> TRUE, data |-> d]

NoCall == [op |-> "none", query |-> <<>>, n_results |-> 0, outcome |-> Returned(<<>>)]

\* TrialIndexer.__init__
NewIndexer == [ran |-> FALSE, trials |-> <<>>, tokenized_corpus |-> <<>>,
               bm25 |-> None, raised |-> "none"]

SysInit ==
    /\ indexer = NewIndexer
    /\ files = [bm25_index |-> Absent, tokenized_corpus |-> Absent, trials_data |-> Absent]
    /\ chatbot = None
    /\ result = NoCall

TokIdle ==
    /\ indexer_tokens = <<>>
    /\ chatbot_tokens = <<>>
    /\ rejoined_tokens = <<>>

\* nothing remembered, no thread in chat, no save and no load under way
ExtIdle ==
    /\ remembered = [call |-> NoCall, at |-> 0]
    /\ threads = <<>>
    /\ saving = [pc |-> "idle"]
    /\ loading = [pc |-> "idle"]

\* ------------------------------------------------------------------------
\* The index build (indexer.py main: TrialIndexer(json_file).build_index()).
\* ------------------------------------------------------------------------

\* a corpus build that drops the documents without tokens
BuildCorpusDropEmpty(trials) ==
    SelectSeq([i \in 1..Len(trials) |-> TrialIndexer_tokenize(create_trial_text(trials[i]))],
              IsNonEmpty)

\* build_index steps 2 and 3: the text of every trial, tokenized, in order
BuildCorpus(trials) ==
    [i \in 1..Len(trials) |-> TrialIndexer_tokenize(create_trial_text(trials[i]))]

\* a save that writes the trial records last to first
SaveIndexReversed(ix) ==
    [bm25_index       |-> Written(ix.bm25),
     tokenized_corpus |-> Written(ix.tokenized_corpus),
     trials_data      |-> Written([d \in 1..Len(ix.trials) |-> ix.trials[Len(ix.trials) + 1 - d]])]

\* TrialIndexer.save_index
save_index(ix) ==
    [bm25_index       |-> Written(ix.bm25),
     tokenized_corpus |-> Written(ix.tokenized_corpus),
     trials_data      |-> Written(ix.trials)]

\* TrialIndexer.build_index: load_trials, corpus, tokenization, BM25Okapi and
\* save_index; an exception of the constructor ends it before the save
build_index ==
    LET tokenized == BuildCorpus(json_trials)
        loaded    == [ran |-> TRUE, trials |-> json_trials, tokenized_corpus |-> tokenized,
                      bm25 |-> None, raised |-> "none"]
    IN  /\ IF BM25Raises(tokenized)
           THEN /\ indexer' = [loaded EXCEPT !.raised = "ZeroDivisionError"]
                /\ UNCHANGED files
           ELSE /\ indexer' = [loaded EXCEPT !.bm25 = BM25Okapi(tokenized)]
                /\ files' = save_index(indexer')
        /\ UNCHANGED <<json_trials, chatbot, result>>
        /\ UNCHANGED <<tokVars, extVars>>

\* ------------------------------------------------------------------------
\* The chatbot.
\* ------------------------------------------------------------------------

NewStats == [total_queries |-> 0, total_retrieval_time |-> 0,
             total_api_time |-> 0, total_time |-> 0]

\* RAGChatbot.__init__: open() of a missing file raises FileNotFoundError
RAGChatbot_init ==
    /\ chatbot = None
    /\ IF files.bm25_index.exists /\ files.tokenized_corpus.exists /\ files.trials_data.exists
       THEN /\ chatbot' = [bm25             |-> files.bm25_index.data,
                           tokenized_corpus |-> files.tokenized_corpus.data,
                           trials           |-> files.trials_data.data,
                           stats            |-> NewStats]
            /\ result' = [NoCall EXCEPT !.op = "__init__"]
       ELSE /\ chatbot' = None
            /\ result' = [NoCall EXCEPT !.op = "__init__",
                                        !.outcome = Raised("FileNotFoundError")]
    /\ UNCHANGED <<json_trials, indexer, files>>
    /\ UNCHANGED <<tokVars, extVars>>

\* a call of retrieve_relevant_trials(query, n_results) on the loaded chatbot
Retrieve(query, n_results) ==
    /\ chatbot # None
    /\ result' = [op |-> "retrieve_relevant_trials", query |-> query,
                  n_results |-> n_results,
                  outcome |-> retrieve_relevant_trials(chatbot, query, n_results)]
    /\ UNCHANGED <<json_trials, indexer, files, chatbot>>
    /\ UNCHANGED <<tokVars, extVars>>

RetrieveAny == \E query \in SampleQueries, n_results \in KValues : Retrieve(query, n_results)

Init ==
    /\ json_trials \in TrialLists
    /\ SysInit
    /\ text = <<>>
    /\ TokIdle
    /\ tpc = "off"
    /\ ExtIdle

Next ==
    \/ build_index
    \/ RAGChatbot_init
    \/ RetrieveAny

Spec == Init /\ [][Next]_vars

\* ------------------------------------------------------------------------
\* The tokenizers on their own: a text, tokenized by the indexer and by the
\* chatbot, and the indexer's tokens joined by spaces and tokenized again.
\* ------------------------------------------------------------------------

TokIndexer ==
    /\ tpc = "text"
    /\ indexer_tokens' = TrialIndexer_tokenize(text)
    /\ tpc' = "indexer"
    /\ UNCHANGED <<text, chatbot_tokens, rejoined_tokens>>
    /\ UNCHANGED <<sysVars, extVars>>

TokChatbot ==
    /\ tpc = "indexer"
    /\ chatbot_tokens' = RAGChatbot_tokenize(text)
    /\ tpc' = "chatbot"
    /\ UNCHANGED <<text, indexer_tokens, rejoined_tokens>>
    /\ UNCHANGED <<sysVars, extVars>>

TokRejoin ==
    /\ tpc = "chatbot"
    /\ rejoined_tokens' = TrialIndexer_tokenize(JoinSpace(indexer_tokens))
    /\ tpc' = "rejoined"
    /\ UNCHANGED <<text, indexer_tokens, chatbot_tokens>>
    /\ UNCHANGED <<sysVars, extVars>>

TokInit ==
    /\ json_trials = <<>>
    /\ SysInit
    /\ text \in Texts
    /\ TokIdle
    /\ tpc = "text"
    /\ ExtIdle

TokNext ==
    \/ TokIndexer
    \/ TokChatbot
    \/ TokRejoin

SpecTok == TokInit /\ [][TokNext]_vars

\* ------------------------------------------------------------------------
\* RAGChatbot.chat.  A time is a whole number of milliseconds.  The context
\* and the answer are kept as what they are made from: the context as the
\* trials it renders, the answer as whether the generation call succeeded.
\* ------------------------------------------------------------------------

\* the largest total_queries a run goes to
MaxQueries == 2

\* the n_results that chat leaves to its default
DefaultNResults == 10

\* the durations a measurement can give
SampleTimes == {0, 3}

RoundDiv(a, b) == (2 * a + b) \div (2 * b)

\* a statistics update that also drops the last trial record
ChatUpdateDropsTrial(bot, retrieval_time, api_time, total_time) ==
    [bot EXCEPT !.stats.total_queries = @ + 1,
                !.trials = SubSeq(@, 1, Len(@) - 1)]

\* a statistics update that also forgets the term weights of the index
ChatUpdateClearsIdf(bot, retrieval_time, api_time, total_time) ==
    [bot EXCEPT !.stats.total_queries = @ + 1,
                !.bm25.idf = <<>>]

\* a statistics update that adds the times and not the query
ChatUpdateTimesOnly(bot, retrieval_time, api_time, total_time) ==
    [bot EXCEPT !.stats.total_retrieval_time = @ + retrieval_time,
                !.stats.total_api_time       = @ + api_time,
                !.stats.total_time           = @ + total_time]

\* chat step 5: the chatbot after the four += on self.stats
chat_update(bot, retrieval_time, api_time, total_time) ==
    [bot EXCEPT !.stats.total_queries        = @ + 1,
                !.stats.total_retrieval_time = @ + retrieval_time,
                !.stats.total_api_time       = @ + api_time,
                !.stats.total_time           = @ + total_time]

\* format_context: the fixed sentence for no trials, else the trials rendered
format_context(relevant_trials) ==
    IF relevant_trials = <<>>
    THEN [found |-> FALSE, trials |-> <<>>]
    ELSE [found |-> TRUE,
          trials |-> [k \in 1..Len(relevant_trials) |-> relevant_trials[k].trial]]

\* generate_answer: the completion, or the apology of the except branch
generate_answer(ok) == IF ok THEN "completion" ELSE "Sorry, error generating answer"

\* chat step 6: Score is the score with two decimals, in hundredths; Relevance
\* is min(score * 10, 100) with one decimal, in tenths
chat_sources(relevant_trials) ==
    [k \in 1..Len(relevant_trials) |->
        LET trial == relevant_trials[k].trial
            score == relevant_trials[k].score
        IN  [NCTId |-> IF "NCTId" \in DOMAIN trial THEN trial["NCTId"] ELSE <<"U", "n", "k", "n", "o", "w", "n">>,
             Title |-> IF "BriefTitle" \in DOMAIN trial THEN trial["BriefTitle"] ELSE <<"N", "/", "A">>,
             Score |-> RoundDiv(score, 100),
             Relevance |-> RoundDiv(IF score * 10 < 100 * 10^4 THEN score * 10 ELSE 100 * 10^4,
                                    1000)]]

\* RAGChatbot.chat(query): the generation call succeeds or fails, and the
\* three durations are what the clock gave
Chat(query, ok, retrieval_time, api_time, overhead) ==
    /\ chatbot # None
    /\ chatbot.stats.total_queries < MaxQueries
    /\ LET retrieved  == retrieve_relevant_trials(chatbot, query, DefaultNResults)
           total_time == retrieval_time + api_time + overhead
       IN  IF retrieved.raised # "none"
           THEN /\ result' = [op |-> "chat", query |-> query, n_results |-> DefaultNResults,
                              outcome |-> Raised(retrieved.raised)]
                /\ UNCHANGED chatbot
           ELSE /\ chatbot' = chat_update(chatbot, retrieval_time, api_time, total_time)
                /\ result' = [op |-> "chat", query |-> query, n_results |-> DefaultNResults,
                              outcome |-> Returned(
                                  [answer  |-> generate_answer(ok),
                                   sources |-> chat_sources(retrieved.value),
                                   timing  |-> [retrieval_time |-> retrieval_time,
                                                api_time       |-> api_time,
                                                total_time     |-> total_time],
                                   context |-> format_context(retrieved.value)])]
    /\ UNCHANGED <<json_trials, indexer, files>>
    /\ UNCHANGED <<tokVars, extVars>>

\* ------------------------------------------------------------------------
\* Retrieval between chats: a few corpora, and a call of
\* retrieve_relevant_trials that is remembered to compare a later one with.
\* ------------------------------------------------------------------------

ChatTrialLists ==
    {t \in TrialLists : Len(t) = 2 /\ HasValue(t[1], "BriefTitle") /\ ~HasValue(t[2], "BriefTitle")}

ChatQueries == {<<"P", "T", "S", "D", " ", "t", "r", "i", "a", "l">>, <<"T", "r", "i", "a", "l", "?", " ", "c", "a", "n", "c", "e", "r">>}

ChatKValues == {1, MaxK}

ChatAny ==
    \E query \in ChatQueries, ok \in BOOLEAN, retrieval_time \in SampleTimes,
       api_time \in SampleTimes :
        Chat(query, ok, retrieval_time, api_time, 0)

RetrieveSome == \E query \in ChatQueries, n_results \in ChatKValues : Retrieve(query, n_results)

\* keep the outcome of the call just made, and how many chats came before it
Remember ==
    /\ result.op = "retrieve_relevant_trials"
    /\ remembered.call = NoCall
    /\ remembered' = [call |-> result, at |-> chatbot.stats.total_queries]
    /\ UNCHANGED <<sysVars, tokVars, threads, saving, loading>>

ChatInit ==
    /\ json_trials \in ChatTrialLists
    /\ SysInit
    /\ text = <<>>
    /\ TokIdle
    /\ tpc = "off"
    /\ ExtIdle

ChatNext ==
    \/ build_index
    \/ RAGChatbot_init
    \/ RetrieveSome
    \/ Remember
    \/ ChatAny

SpecChat == ChatInit /\ [][ChatNext]_vars

\* ------------------------------------------------------------------------
\* The ranking on its own: an index over a tokenized corpus drawn from a few
\* documents, as the chatbot loads it, and calls of retrieve_relevant_trials.
\* ------------------------------------------------------------------------

\* tokenized documents: the three of the scenario, a one-word one, a long one
\* and one as long as the first
SampleDocs == {
    <<<<"p", "t", "s", "d">>, <<"t", "r", "i", "a", "l">>, <<"a", "d", "u", "l", "t">>>>,
    <<<<"c", "a", "n", "c", "e", "r">>, <<"t", "r", "i", "a", "l">>>>,
    <<>>,
    <<<<"p", "t", "s", "d">>>>,
    <<<<"p", "t", "s", "d">>, <<"t", "r", "i", "a", "l">>, <<"a", "d", "u", "l", "t">>, <<"a", "d", "u", "l", "t">>, <<"a", "d", "u", "l", "t">>, <<"a", "d", "u", "l", "t">>>>,
    <<<<"c", "a", "n", "c", "e", "r">>, <<"a", "d", "u", "l", "t">>, <<"c", "a", "n", "c", "e", "r">>>>
}

\* the corpora BM25Okapi accepts
RankCorpora == {c \in SeqsUpTo(SampleDocs, MaxTrials) : ~BM25Raises(c)}

RankQueries == {<<"p", "t", "s", "d", " ", "t", "r", "i", "a", "l">>, <<"t", "r", "i", "a", "l">>, <<"P", "T", "S", "D", ",", " ", "a", "d", "u", "l", "t", "?">>}

\* a chatbot whose three pickles hold the index of corpus, the corpus and one
\* record for each document
RankInit ==
    /\ json_trials = <<>>
    /\ indexer = NewIndexer
    /\ \E corpus \in RankCorpora :
          /\ chatbot = [bm25             |-> BM25Okapi(corpus),
                        tokenized_corpus |-> corpus,
                        trials           |-> [d \in 1..Len(corpus) |-> <<>>],
                        stats            |-> NewStats]
          /\ files = [bm25_index       |-> Written(BM25Okapi(corpus)),
                      tokenized_corpus |-> Written(corpus),
                      trials_data      |-> Written([d \in 1..Len(corpus) |-> <<>>])]
    /\ result = NoCall
    /\ text = <<>>
    /\ TokIdle
    /\ tpc = "off"
    /\ ExtIdle

RankRetrieve == \E query \in RankQueries, n_results \in 1..MaxK : Retrieve(query, n_results)

RankNext == RankRetrieve

SpecRank == RankInit /\ [][RankNext]_vars

\* ------------------------------------------------------------------------
\* Properties of retrieve_relevant_trials (under Spec).
\* ------------------------------------------------------------------------

Retrieved == result.op = "retrieve_relevant_trials"

RetrievedOk == Retrieved /\ result.outcome.raised = "none"

Hits == result.outcome.value

\* the score the loaded index gives document position p for the last query
ScoreOf(p) == get_scores(chatbot.bm25, RAGChatbot_tokenize(result.query))[p + 1]

\* C1: the trials returned by retrieve_relevant_trials carry the scores of their
\* documents and are ordered by score descending; two returned documents of
\* equal score appear in ascending corpus position.
C1_RankingOrder ==
    RetrievedOk =>
        /\ \A a \in 1..Len(Hits) : Hits[a].score = ScoreOf(Hits[a].index)
        /\ \A a, b \in 1..Len(Hits) :
              /\ ScoreOf(Hits[a].index) > ScoreOf(Hits[b].index) => a < b
              /\ (a < b /\ ScoreOf(Hits[a].index) = ScoreOf(Hits[b].index))
                    => Hits[a].index < Hits[b].index

\* a result with a strictly better first document and a tie behind it
C1_Witness ==
    /\ RetrievedOk
    /\ Len(Hits) >= 3
    /\ Hits[1].score > Hits[2].score
    /\ Hits[2].score = Hits[3].score
    /\ Hits[1].index > Hits[2].index

\* C2: a query that tokenizes to zero tokens returns no trials, for every
\* valid K.
C2_EmptyQueryEmptyResult ==
    (RetrievedOk /\ RAGChatbot_tokenize(result.query) = <<>> /\ result.n_results >= 1)
        => Hits = <<>>

\* C3: retrieve_relevant_trials with n_results <= 0 raises InvalidArgumentError
\* and returns no list.
C3_InvalidKRejected ==
    (Retrieved /\ result.n_results <= 0)
        => result.outcome.raised = "InvalidArgumentError"

\* C4: build_index on an empty trial list ends in EmptyCorpusError, and no
\* index is produced or saved.
C4_EmptyCorpusRejected ==
    (indexer.ran /\ indexer.trials = <<>>)
        => /\ indexer.raised = "EmptyCorpusError"
           /\ indexer.bm25 = None
           /\ ~files.bm25_index.exists

\* C5: every call of retrieve_relevant_trials returns, and every position it
\* returns is at least 0 and below the number of documents the index was built
\* from, which is the number of trials, so that trials[idx] is in range.
C5_PositionsInRange ==
    Retrieved =>
        /\ result.outcome.raised = "none"
        /\ chatbot.bm25.corpus_size = Len(indexer.trials)
        /\ chatbot.bm25.corpus_size = Len(chatbot.trials)
        /\ \A a \in 1..Len(Hits) :
              /\ 0 <= Hits[a].index
              /\ Hits[a].index < chatbot.bm25.corpus_size

\* every document returned, for a K above the corpus size and for a negative K
C5_Witness ==
    /\ RetrievedOk
    /\ result.n_results > chatbot.bm25.corpus_size
    /\ Len(Hits) = chatbot.bm25.corpus_size
    /\ Len(Hits) >= 2

\* C6: for K >= 1 retrieve_relevant_trials returns at most K trials.
C6_AtMostK ==
    (RetrievedOk /\ result.n_results >= 1) => Len(Hits) <= result.n_results

\* a corpus larger than K, cut to exactly K
C6_Witness ==
    /\ RetrievedOk
    /\ result.n_results >= 1
    /\ chatbot.bm25.corpus_size > result.n_results
    /\ Len(Hits) = result.n_results

\* ------------------------------------------------------------------------
\* Properties of build_index (under Spec).
\* ------------------------------------------------------------------------

\* C7: after build_index the tokenized corpus is aligned 1:1 with the trial
\* records of the JSON file: same length, document i is the tokenized text of
\* trial i, and no record is dropped, reordered or deduplicated.
C7_CorpusAligned ==
    indexer.ran =>
        /\ indexer.trials = json_trials
        /\ Len(indexer.tokenized_corpus) = Len(indexer.trials)
        /\ \A i \in 1..Len(indexer.trials) :
              indexer.tokenized_corpus[i]
                  = TrialIndexer_tokenize(create_trial_text(indexer.trials[i]))

\* a build over a record without tokens, a record without NCTId and two
\* records with the same NCTId
C7_Witness ==
    /\ indexer.ran
    /\ \E i, j, k \in 1..Len(indexer.trials) :
          /\ i # j
          /\ HasValue(indexer.trials[i], "NCTId")
          /\ HasValue(indexer.trials[j], "NCTId")
          /\ indexer.trials[i]["NCTId"] = indexer.trials[j]["NCTId"]
          /\ indexer.tokenized_corpus[k] = <<>>

\* ------------------------------------------------------------------------
\* Properties of the tokenizers (under SpecTok).
\* ------------------------------------------------------------------------

RECURSIVE Flatten(_)
Flatten(tokens) == IF tokens = <<>> THEN <<>> ELSE Head(tokens) \o Flatten(Tail(tokens))

\* the positions of text that start the alphanumeric part of a word: an
\* alphanumeric character with no alphanumeric character before it in its word
WordStarts(t) ==
    {i \in 1..Len(t) :
        /\ isalnum(t[i])
        /\ ~\E j \in 1..(i - 1) :
              /\ isalnum(t[j])
              /\ \A k \in j..i : t[k] \notin Whitespace}

\* tokens is what is left of text, word by word, once it is lower-cased and
\* every character that is not alphanumeric is removed
IsTokenization(tokens, t) ==
    /\ \A i \in 1..Len(tokens) :
          /\ tokens[i] # <<>>
          /\ \A k \in 1..Len(tokens[i]) :
                /\ isalnum(tokens[i][k])
                /\ tokens[i][k] \notin AsciiUpper \cup NonAsciiUpper
    /\ Flatten(tokens) = SelectSeq(lower(t), isalnum)
    /\ Len(tokens) = Cardinality(WordStarts(t))

OnlyAscii(tokens) ==
    \A i \in 1..Len(tokens) : \A k \in 1..Len(tokens[i]) : IsAsciiAlnum(tokens[i][k])

IndexerTokenized == tpc \in {"indexer", "chatbot", "rejoined"}

ChatbotTokenized == tpc \in {"chatbot", "rejoined"}

\* C8 (as the claim states it): tokenize returns only tokens made exclusively
\* of ASCII letters and digits.
C8_TokensAsciiOnly ==
    /\ IndexerTokenized => OnlyAscii(indexer_tokens)
    /\ ChatbotTokenized => OnlyAscii(chatbot_tokens)

\* C8 (amended): tokenize returns, in input order and with duplicates retained,
\* only non-empty lower-cased tokens made exclusively of alphanumeric characters
\* in the sense of str.isalnum, which holds of letters and digits outside ASCII
\* too: every other character is removed from each whitespace-separated token
\* and tokens that become empty are discarded.
C8_TokensAlnum ==
    /\ IndexerTokenized => IsTokenization(indexer_tokens, text)
    /\ ChatbotTokenized => IsTokenization(chatbot_tokens, text)

\* a text with an upper-case letter, a letter outside ASCII and a word that
\* became empty and was discarded
C8_Witness ==
    /\ ChatbotTokenized
    /\ Len(indexer_tokens) = 1
    /\ Len(split(text)) = 2
    /\ \E i \in 1..Len(text) : text[i] \in AsciiUpper
    /\ \E i \in 1..Len(text) : text[i] \in NonAsciiLower \cup NonAsciiUpper

C10_TokenizeFixedPoint == tpc = "rejoined" => rejoined_tokens = indexer_tokens

\* a text whose tokens differ from its words, tokenized again
C10_Witness ==
    /\ tpc = "rejoined"
    /\ Len(indexer_tokens) >= 2
    /\ indexer_tokens # split(text)
    /\ \E i \in 1..Len(text) : ~isalnum(text[i]) /\ text[i] \notin Whitespace

\* ------------------------------------------------------------------------
\* Properties of retrieval between chats (under SpecChat).
\* ------------------------------------------------------------------------

\* the call just made repeats the remembered one
SameCallAgain ==
    /\ result.op = "retrieve_relevant_trials"
    /\ remembered.call.op = "retrieve_relevant_trials"
    /\ result.query = remembered.call.query
    /\ result.n_results = remembered.call.n_results

QueryTokens == RAGChatbot_tokenize(result.query)

\* the whole ranking of the last query, as document positions from 0
Ranking == SortedIndices(get_scores(chatbot.bm25, QueryTokens))

\* the place of document position p in a ranking
PlaceIn(ranking, p) == CHOOSE k \in 1..Len(ranking) : ranking[k] = p

\* the query terms document d (from 1) contains
Matched(d) == {q \in Words(QueryTokens) : q \in Words(chatbot.tokenized_corpus[d])}

\* document a matches every query term document b matches, as often, and more
MatchesMore(a, b) ==
    /\ Matched(b) # Matched(a)
    /\ Matched(b) \subseteq Matched(a)
    /\ \A q \in Matched(b) :
          TermFreq(chatbot.tokenized_corpus[a], q) = TermFreq(chatbot.tokenized_corpus[b], q)

IsScenario ==
    /\ chatbot.tokenized_corpus = << <<<<"p", "t", "s", "d">>, <<"t", "r", "i", "a", "l">>, <<"a", "d", "u", "l", "t">>>>, <<<<"c", "a", "n", "c", "e", "r">>, <<"t", "r", "i", "a", "l">>>>, <<>> >>
    /\ result.query = <<"p", "t", "s", "d", " ", "t", "r", "i", "a", "l">>
    /\ result.n_results = 2

ScenarioHolds ==
    (RetrievedOk /\ IsScenario)
        => /\ Len(Hits) = 2
           /\ Hits[1].index = 0
           /\ Hits[2].index = 1

\* C12 (as the claim states it): the scenario, and in general a document that
\* matches more of the query than another is not ranked below it, and a
\* document without tokens is never ranked above a document that matches a
\* query term.
C12_SupersetNotBelow ==
    RetrievedOk =>
        LET ranking == Ranking
        IN  /\ ScenarioHolds
            /\ \A a, b \in 1..chatbot.bm25.corpus_size :
                  MatchesMore(a, b) => PlaceIn(ranking, a - 1) < PlaceIn(ranking, b - 1)
            /\ \A a, b \in 1..chatbot.bm25.corpus_size :
                  (chatbot.tokenized_corpus[a] = <<>> /\ Matched(b) # {})
                      => PlaceIn(ranking, b - 1) < PlaceIn(ranking, a - 1)

\* C12 (amended): the scenario; in general a document that matches more of the
\* query than another of the same length is ranked before it when every term
\* it matches has a positive weight, and a document without tokens scores 0
\* and is ranked behind every document of positive score.
C12_ScenarioAndPositive ==
    RetrievedOk =>
        LET scores  == get_scores(chatbot.bm25, QueryTokens)
            ranking == SortedIndices(scores)
        IN  /\ ScenarioHolds
            /\ \A a, b \in 1..chatbot.bm25.corpus_size :
                  (/\ Len(chatbot.tokenized_corpus[a]) = Len(chatbot.tokenized_corpus[b])
                   /\ MatchesMore(a, b)
                   /\ \A q \in Matched(a) : chatbot.bm25.idf[q] > 0)
                      => PlaceIn(ranking, a - 1) < PlaceIn(ranking, b - 1)
            /\ \A a, b \in 1..chatbot.bm25.corpus_size :
                  chatbot.tokenized_corpus[a] = <<>>
                      => /\ scores[a] = 0
                         /\ scores[b] > 0 => PlaceIn(ranking, b - 1) < PlaceIn(ranking, a - 1)

\* the scenario's corpus and query, retrieved with K = 2
C12_Witness == RetrievedOk /\ IsScenario

\* a longer match of positive weight ranked before a shorter one of equal length
C12_General ==
    /\ RetrievedOk
    /\ \E a, b \in 1..chatbot.bm25.corpus_size :
          /\ a > b
          /\ MatchesMore(a, b)
          /\ Matched(b) # {}
          /\ Len(chatbot.tokenized_corpus[a]) = Len(chatbot.tokenized_corpus[b])
          /\ \A q \in Matched(a) : chatbot.bm25.idf[q] > 0

\* ------------------------------------------------------------------------
\* Queries with terms outside the vocabulary (under Spec).
\* ------------------------------------------------------------------------

\* the last query has a term and none of its terms is in the loaded index
OnlyOutOfVocabulary ==
    /\ QueryTokens # <<>>
    /\ \A t \in Words(QueryTokens) : t \notin DOMAIN chatbot.bm25.idf

\* C13: a query made only of out-of-vocabulary terms scores every document 0
\* and returns the first K corpus positions 0..K-1 in ascending order, all N
\* positions when K > N.
C13_OutOfVocabularyQuery ==
    (RetrievedOk /\ OnlyOutOfVocabulary /\ result.n_results >= 0) =>
        LET n == IF result.n_results < Len(chatbot.trials)
                 THEN result.n_results ELSE Len(chatbot.trials)
        IN  /\ \A d \in 1..chatbot.bm25.corpus_size : ScoreOf(d - 1) = 0
            /\ Hits = [k \in 1..n |-> [trial |-> chatbot.trials[k],
                                       score |-> 0,
                                       index |-> k - 1]]

C13_Witness ==
    /\ RetrievedOk
    /\ OnlyOutOfVocabulary
    /\ result.n_results = 2
    /\ Len(chatbot.trials) = MaxTrials
    /\ Len(Hits) = 2

\* tokens a caller may add to a query
ExtraTokens == {<<"z", "z", "z">>, <<"p", "t", "s", "d">>}

\* the last query with token t put behind it, or in front of it
QueryThen(t) == result.query \o <<" ">> \o t

QueryAfter(t) == t \o <<" ">> \o result.query

\* C14: a query term that is not in the index vocabulary contributes 0 and
\* raises no error: the scores and the returned ranking for the query with
\* such a token added are those for the query alone.
C14_OutOfVocabularyTermIgnored ==
    Retrieved =>
        \A t \in ExtraTokens :
            t \notin DOMAIN chatbot.bm25.idf =>
                /\ get_scores(chatbot.bm25, RAGChatbot_tokenize(QueryThen(t)))
                      = get_scores(chatbot.bm25, QueryTokens)
                /\ retrieve_relevant_trials(chatbot, QueryThen(t), result.n_results)
                      = result.outcome
                /\ retrieve_relevant_trials(chatbot, QueryAfter(t), result.n_results)
                      = result.outcome

\* a query that scores some document above 0, and a token outside the index
C14_Witness ==
    /\ RetrievedOk
    /\ \E k \in 1..Len(Hits) : Hits[k].score > 0
    /\ <<"p", "t", "s", "d">> \in DOMAIN chatbot.bm25.idf
    /\ <<"z", "z", "z">> \notin DOMAIN chatbot.bm25.idf
    /\ RAGChatbot_tokenize(QueryThen(<<"z", "z", "z">>)) = QueryTokens \o <<<<"z", "z", "z">>>>

\* ------------------------------------------------------------------------
\* Records without indexed fields (under Spec).
\* ------------------------------------------------------------------------

\* trial.get(field) is falsy for every field create_trial_text reads
AllFieldsAbsent(trial) ==
    \A k \in 1..Len(TrialTextFields) : ~HasValue(trial, TrialTextFields[k].field)

\* C15: a trial record with all indexed fields absent yields an empty document
\* (create_trial_text returns the empty string, tokenize returns no token), it
\* is kept in the corpus at its position, and it scores 0 for every query.
C15_AbsentFieldsEmptyDocument ==
    /\ indexer.ran =>
          /\ Len(indexer.tokenized_corpus) = Len(json_trials)
          /\ \A d \in 1..Len(json_trials) :
                AllFieldsAbsent(json_trials[d]) =>
                    /\ create_trial_text(json_trials[d]) = <<>>
                    /\ TrialIndexer_tokenize(create_trial_text(json_trials[d])) = <<>>
                    /\ indexer.tokenized_corpus[d] = <<>>
    /\ chatbot # None =>
          /\ Len(chatbot.tokenized_corpus) = Len(chatbot.trials)
          /\ \A d \in 1..Len(chatbot.trials) :
                AllFieldsAbsent(chatbot.trials[d]) =>
                    /\ chatbot.tokenized_corpus[d] = <<>>
                    /\ \A query \in SampleQueries :
                          get_scores(chatbot.bm25, RAGChatbot_tokenize(query))[d] = 0

\* a record without fields in the middle of a loaded corpus, and a query that
\* scores another document
C15_Witness ==
    /\ RetrievedOk
    /\ Len(chatbot.trials) = MaxTrials
    /\ AllFieldsAbsent(chatbot.trials[2])
    /\ ~AllFieldsAbsent(chatbot.trials[1])
    /\ ScoreOf(2) > 0
    /\ ScoreOf(1) = 0

\* build_index has run on a non-empty trial list whose documents all have no token
AllEmptyCorpusBuilt ==
    /\ indexer.ran
    /\ indexer.trials # <<>>
    /\ \A d \in 1..Len(indexer.tokenized_corpus) : indexer.tokenized_corpus[d] = <<>>

\* C16: a non-empty corpus in which every document has zero tokens is accepted
\* by the index build without any error (and the index is saved, so that every
\* query against it can score every document 0).
C16_AllEmptyCorpusAccepted ==
    AllEmptyCorpusBuilt =>
        /\ indexer.raised = "none"
        /\ indexer.bm25 # None
        /\ files.bm25_index.exists

\* ------------------------------------------------------------------------
\* Negative weights (under SpecRank).
\* ------------------------------------------------------------------------

\* query term q occurs in more than half of the documents of the loaded corpus
InMostDocuments(q) ==
    2 * DocFreq(chatbot.tokenized_corpus, q) > Len(chatbot.tokenized_corpus)

\* C17 as stated: a query term that occurs in more than half of the documents
\* contributes a negative amount to the score of each document containing it.
C17_FrequentTermNegative ==
    RetrievedOk =>
        \A q \in Words(QueryTokens), d \in 1..chatbot.bm25.corpus_size :
            (InMostDocuments(q) /\ q \in Words(chatbot.tokenized_corpus[d]))
                => TermScore(chatbot.bm25, q, d) < 0

\* C17: the weight of a query term that occurs in more than half of the
\* documents is replaced by a quarter of the average weight of the vocabulary,
\* so the term contributes a negative amount to the documents containing it
\* exactly when that average is negative; the scores reported are the sums of
\* the contributions, below zero or not.
C17_NegativeWeightReplaced ==
    RetrievedOk =>
        /\ \A k \in 1..Len(Hits) : Hits[k].score = ScoreOf(Hits[k].index)
        /\ \A q \in Words(QueryTokens), d \in 1..chatbot.bm25.corpus_size :
              (InMostDocuments(q) /\ q \in Words(chatbot.tokenized_corpus[d]))
                  => /\ chatbot.bm25.idf[q] = AverageIdf(chatbot.tokenized_corpus) \div 4
                     /\ TermScore(chatbot.bm25, q, d) < 0
                           <=> AverageIdf(chatbot.tokenized_corpus) < 0

\* a reported score below zero
C17_Witness ==
    /\ RetrievedOk
    /\ \E k \in 1..Len(Hits) :
          /\ Hits[k].score < 0
          /\ \E q \in Words(QueryTokens) :
                InMostDocuments(q) /\ TermScore(chatbot.bm25, q, Hits[k].index + 1) < 0

\* a frequent term that adds to the score of a document containing it
C17_PositiveReplacement ==
    /\ RetrievedOk
    /\ \E q \in Words(QueryTokens), d \in 1..chatbot.bm25.corpus_size :
          /\ InMostDocuments(q)
          /\ TermScore(chatbot.bm25, q, d) > 0

\* ------------------------------------------------------------------------
\* Queries leave the index alone (under SpecChat).
\* ------------------------------------------------------------------------

\* C18: querying performs no mutation of the index or the corpus: every step
\* taken with a loaded chatbot, a retrieve_relevant_trials or a chat call among
\* them, leaves its bm25 index, its tokenized_corpus and its trials as they were.
C18_QueriesLeaveIndex ==
    [][chatbot # None =>
          /\ chatbot' # None
          /\ chatbot'.bm25 = chatbot.bm25
          /\ chatbot'.tokenized_corpus = chatbot.tokenized_corpus
          /\ chatbot'.trials = chatbot.trials]_vars

\* a retrieval after the chats, on the index as it was saved
C18_Witness ==
    /\ chatbot # None
    /\ chatbot.stats.total_queries = MaxQueries
    /\ RetrievedOk
    /\ Len(Hits) = 2
    /\ chatbot.bm25 = files.bm25_index.data
    /\ chatbot.tokenized_corpus = files.tokenized_corpus.data
    /\ chatbot.trials = files.trials_data.data

\* ------------------------------------------------------------------------
\* Concurrent chats: app.py caches one RAGChatbot (st.cache_resource) that
\* the script thread of every browser session calls.  A chat works on locals
\* up to its step 5, where each += on self.stats is a read of the entry and a
\* later write of the sum.
\* ------------------------------------------------------------------------

\* the sessions that call chat on the shared chatbot, once each
Sessions == {"session1", "session2"}

\* the entries of self.stats in the order chat updates them
StatsFields == <<"total_queries", "total_retrieval_time", "total_api_time", "total_time">>

NoChat == [pc |-> "idle", query |-> <<>>, relevant_trials |-> <<>>, answer |-> "",
           retrieval_time |-> 0, api_time |-> 0, total_time |-> 0,
           field |-> 1, read |-> 0]

\* what the call of session s adds to entry k of self.stats
Increment(call, k) ==
    IF k = 1 THEN 1
    ELSE IF k = 2 THEN call.retrieval_time
    ELSE IF k = 3 THEN call.api_time
    ELSE call.total_time

\* the lists the shared chatbot is built from
ConcTrialLists ==
    {t \in ChatTrialLists : HasValue(t[2], "EligibilityCriteria")}

\* the chatbot that RAGChatbot() loads after build_index on trials
LoadedChatbot(trials) ==
    [bm25             |-> BM25Okapi(BuildCorpus(trials)),
     tokenized_corpus |-> BuildCorpus(trials),
     trials           |-> trials,
     stats            |-> NewStats]

\* chat steps 1 to 4 in session s: retrieval, context, answer and the times
ChatBegin(s, query, ok, retrieval_time, api_time) ==
    /\ chatbot # None
    /\ threads[s].pc = "idle"
    /\ LET retrieved == retrieve_relevant_trials(chatbot, query, DefaultNResults)
       IN  IF retrieved.raised # "none"
           THEN /\ threads' = [threads EXCEPT ![s].pc = "done", ![s].query = query]
                /\ result' = [op |-> "chat", query |-> query, n_results |-> DefaultNResults,
                              outcome |-> Raised(retrieved.raised)]
           ELSE /\ threads' = [threads EXCEPT ![s] =
                                  [NoChat EXCEPT !.pc = "read",
                                                 !.query = query,
                                                 !.relevant_trials = retrieved.value,
                                                 !.answer = generate_answer(ok),
                                                 !.retrieval_time = retrieval_time,
                                                 !.api_time = api_time,
                                                 !.total_time = retrieval_time + api_time]]
                /\ UNCHANGED result
    /\ UNCHANGED <<json_trials, indexer, files, chatbot>>
    /\ UNCHANGED <<tokVars, remembered, saving, loading>>

\* chat step 5, first half of one +=: session s reads the entry
StatsRead(s) ==
    /\ threads[s].pc = "read"
    /\ threads' = [threads EXCEPT ![s].pc = "write",
                                  ![s].read = chatbot.stats[StatsFields[threads[s].field]]]
    /\ UNCHANGED <<sysVars, tokVars, remembered, saving, loading>>

\* chat step 5, second half of one +=: session s stores the entry it read
\* plus its increment, and goes on to the next entry
StatsWrite(s) ==
    /\ threads[s].pc = "write"
    /\ LET k == threads[s].field
       IN  /\ chatbot' = [chatbot EXCEPT !.stats[StatsFields[k]] =
                                            threads[s].read + Increment(threads[s], k)]
           /\ threads' = [threads EXCEPT ![s].pc = IF k < Len(StatsFields) THEN "read" ELSE "return",
                                         ![s].field = IF k < Len(StatsFields) THEN k + 1 ELSE k]
    /\ UNCHANGED <<json_trials, indexer, files, result>>
    /\ UNCHANGED <<tokVars, remembered, saving, loading>>

\* chat steps 6 and 7 in session s: the sources and the returned dictionary
ChatReturn(s) ==
    /\ threads[s].pc = "return"
    /\ threads' = [threads EXCEPT ![s].pc = "done"]
    /\ result' = [op |-> "chat", query |-> threads[s].query, n_results |-> DefaultNResults,
                  outcome |-> Returned(
                      [answer  |-> threads[s].answer,
                       sources |-> chat_sources(threads[s].relevant_trials),
                       timing  |-> [retrieval_time |-> threads[s].retrieval_time,
                                    api_time       |-> threads[s].api_time,
                                    total_time     |-> threads[s].total_time],
                       context |-> format_context(threads[s].relevant_trials)])]
    /\ UNCHANGED <<json_trials, indexer, files, chatbot>>
    /\ UNCHANGED <<tokVars, remembered, saving, loading>>

ChatBeginAny ==
    \E s \in Sessions, query \in ChatQueries, ok \in BOOLEAN,
       retrieval_time \in SampleTimes, api_time \in SampleTimes :
        ChatBegin(s, query, ok, retrieval_time, api_time)

StatsReadAny == \E s \in Sessions : StatsRead(s)

StatsWriteAny == \E s \in Sessions : StatsWrite(s)

ChatReturnAny == \E s \in Sessions : ChatReturn(s)

ConcInit ==
    /\ json_trials \in ConcTrialLists
    /\ indexer = [ran |-> TRUE, trials |-> json_trials,
                  tokenized_corpus |-> BuildCorpus(json_trials),
                  bm25 |-> BM25Okapi(BuildCorpus(json_trials)), raised |-> "none"]
    /\ files = save_index(indexer)
    /\ chatbot = LoadedChatbot(json_trials)
    /\ result = [NoCall EXCEPT !.op = "__init__"]
    /\ text = <<>>
    /\ TokIdle
    /\ tpc = "off"
    /\ remembered = [call |-> NoCall, at |-> 0]
    /\ threads = [s \in Sessions |-> NoChat]
    /\ saving = [pc |-> "idle"]
    /\ loading = [pc |-> "idle"]

ConcNext ==
    \/ ChatBeginAny
    \/ StatsReadAny
    \/ StatsWriteAny
    \/ ChatReturnAny

SpecConc == ConcInit /\ [][ConcNext]_vars

\* every session's chat has returned
AllChatsDone == \A s \in Sessions : threads[s].pc = "done"

\* C19: the running statistics are updated atomically per completed query:
\* once all n concurrent chat calls on the shared chatbot have completed,
\* total_queries equals n and each cumulative time equals the sum of the
\* per-call times; no update is lost.
C19_NoLostUpdate ==
    AllChatsDone =>
        /\ chatbot.stats.total_queries = Cardinality(Sessions)
        /\ chatbot.stats.total_retrieval_time
              = SumOver(Sessions, [s \in Sessions |-> threads[s].retrieval_time])
        /\ chatbot.stats.total_api_time
              = SumOver(Sessions, [s \in Sessions |-> threads[s].api_time])
        /\ chatbot.stats.total_time
              = SumOver(Sessions, [s \in Sessions |-> threads[s].total_time])

\* the count alone: two chats completed and one of them is missing
C19_LostQuery ==
    /\ AllChatsDone
    /\ chatbot.stats.total_queries < Cardinality(Sessions)

\* ------------------------------------------------------------------------
\* A rebuild beside a loading chatbot: indexer.py rewrites the three pickles
\* one after the other (save_index) while a RAGChatbot of another process
\* opens them one after the other (__init__).
\* ------------------------------------------------------------------------

\* the contents the JSON file has at one build or another
RebuildTrialLists ==
    {t \in TrialLists : /\ Len(t) >= 1
                        /\ HasValue(t[1], "BriefTitle")
                        /\ \A d \in 2..Len(t) : HasValue(t[d], "EligibilityCriteria")}

\* the indexer after build_index steps 1 to 4 on trials
BuiltIndexer(trials) ==
    [ran |-> TRUE, trials |-> trials, tokenized_corpus |-> BuildCorpus(trials),
     bm25 |-> IF BM25Raises(BuildCorpus(trials)) THEN None
              ELSE BM25Okapi(BuildCorpus(trials)),
     raised |-> IF BM25Raises(BuildCorpus(trials)) THEN "ZeroDivisionError" ELSE "none"]

NoLoad == [pc |-> "idle", bm25 |-> None, tokenized_corpus |-> <<>>]

\* build_index steps 1 to 4 of a new indexer.py run, on the JSON as it is now
RebuildStart(trials) ==
    /\ ~indexer.ran
    /\ saving.pc = "idle"
    /\ json_trials' = trials
    /\ indexer' = BuiltIndexer(trials)
    /\ saving' = [pc |-> IF indexer'.raised = "none" THEN "bm25_index" ELSE "idle"]
    /\ UNCHANGED <<files, chatbot, result>>
    /\ UNCHANGED <<tokVars, remembered, threads, loading>>

\* save_index: pickle.dump(self.bm25, f)
SaveBm25 ==
    /\ saving.pc = "bm25_index"
    /\ files' = [files EXCEPT !.bm25_index = Written(indexer.bm25)]
    /\ saving' = [pc |-> "tokenized_corpus"]
    /\ UNCHANGED <<json_trials, indexer, chatbot, result>>
    /\ UNCHANGED <<tokVars, remembered, threads, loading>>

\* save_index: pickle.dump(self.tokenized_corpus, f)
SaveCorpus ==
    /\ saving.pc = "tokenized_corpus"
    /\ files' = [files EXCEPT !.tokenized_corpus = Written(indexer.tokenized_corpus)]
    /\ saving' = [pc |-> "trials_data"]
    /\ UNCHANGED <<json_trials, indexer, chatbot, result>>
    /\ UNCHANGED <<tokVars, remembered, threads, loading>>

\* save_index: pickle.dump(self.trials, f)
SaveTrials ==
    /\ saving.pc = "trials_data"
    /\ files' = [files EXCEPT !.trials_data = Written(indexer.trials)]
    /\ saving' = [pc |-> "idle"]
    /\ UNCHANGED <<json_trials, indexer, chatbot, result>>
    /\ UNCHANGED <<tokVars, remembered, threads, loading>>

\* RAGChatbot.__init__: self.bm25 = pickle.load(f)
LoadBm25 ==
    /\ chatbot = None
    /\ loading.pc = "idle"
    /\ IF files.bm25_index.exists
       THEN /\ loading' = [NoLoad EXCEPT !.pc = "tokenized_corpus",
                                         !.bm25 = files.bm25_index.data]
            /\ UNCHANGED result
       ELSE /\ result' = [NoCall EXCEPT !.op = "__init__",
                                        !.outcome = Raised("FileNotFoundError")]
            /\ UNCHANGED loading
    /\ UNCHANGED <<json_trials, indexer, files, chatbot>>
    /\ UNCHANGED <<tokVars, remembered, threads, saving>>

\* RAGChatbot.__init__: self.tokenized_corpus = pickle.load(f)
LoadCorpus ==
    /\ loading.pc = "tokenized_corpus"
    /\ IF files.tokenized_corpus.exists
       THEN /\ loading' = [loading EXCEPT !.pc = "trials_data",
                                          !.tokenized_corpus = files.tokenized_corpus.data]
            /\ UNCHANGED result
       ELSE /\ result' = [NoCall EXCEPT !.op = "__init__",
                                        !.outcome = Raised("FileNotFoundError")]
            /\ loading' = NoLoad
    /\ UNCHANGED <<json_trials, indexer, files, chatbot>>
    /\ UNCHANGED <<tokVars, remembered, threads, saving>>

\* RAGChatbot.__init__: self.trials = pickle.load(f), and the new statistics
LoadTrials ==
    /\ loading.pc = "trials_data"
    /\ IF files.trials_data.exists
       THEN /\ chatbot' = [bm25             |-> loading.bm25,
                           tokenized_corpus |-> loading.tokenized_corpus,
                           trials           |-> files.trials_data.data,
                           stats            |-> NewStats]
            /\ result' = [NoCall EXCEPT !.op = "__init__"]
       ELSE /\ result' = [NoCall EXCEPT !.op = "__init__",
                                        !.outcome = Raised("FileNotFoundError")]
            /\ UNCHANGED chatbot
    /\ loading' = NoLoad
    /\ UNCHANGED <<json_trials, indexer, files>>
    /\ UNCHANGED <<tokVars, remembered, threads, saving>>

RebuildAny == \E trials \in RebuildTrialLists : RebuildStart(trials)

\* the three pickles of an earlier, complete build; no chatbot loaded yet
RebuildInit ==
    /\ json_trials \in RebuildTrialLists
    /\ indexer = NewIndexer
    /\ files = save_index(BuiltIndexer(json_trials))
    /\ chatbot = None
    /\ result = NoCall
    /\ text = <<>>
    /\ TokIdle
    /\ tpc = "off"
    /\ remembered = [call |-> NoCall, at |-> 0]
    /\ threads = <<>>
    /\ saving = [pc |-> "idle"]
    /\ loading = NoLoad

RebuildNext ==
    \/ RebuildAny
    \/ SaveBm25
    \/ SaveCorpus
    \/ SaveTrials
    \/ LoadBm25
    \/ LoadCorpus
    \/ LoadTrials
    \/ RetrieveSome

SpecRebuild == RebuildInit /\ [][RebuildNext]_vars

\* C20: rebuilding the index is never observable as a partial update: the
\* index, the tokenized corpus and the trials a RAGChatbot has loaded all come
\* from the same build, so the loaded index size equals len(trials).
C20_LoadedFromOneBuild ==
    chatbot # None =>
        /\ chatbot.bm25.corpus_size = Len(chatbot.trials)
        /\ Len(chatbot.tokenized_corpus) = Len(chatbot.trials)
        /\ chatbot.tokenized_corpus = BuildCorpus(chatbot.trials)

\* the new index over the old trials: a query that runs into trials[idx]
C20_IndexErrorAfterRebuild ==
    /\ Retrieved
    /\ result.outcome.raised = "IndexError"
    /\ chatbot.bm25.corpus_size > Len(chatbot.trials)

\* ------------------------------------------------------------------------
\* The saved index read back (under Spec).
\* ------------------------------------------------------------------------

\* the index and the trials the TrialIndexer holds in memory, as a retriever
InMemory == [bm25 |-> indexer.bm25, trials |-> indexer.trials]

ChatRequestNDefault == 5

ChatRequestNMin == 1

ChatRequestNMax == 20

\* ChatRequest.query: Field(..., min_length=1, max_length=1000)
ChatRequestQueryMax == 1000

\* the request body passes the validation of ChatRequest
ValidChatRequest(query, n_results) ==
    /\ Len(query) >= 1
    /\ Len(query) <= ChatRequestQueryMax
    /\ n_results >= ChatRequestNMin
    /\ n_results <= ChatRequestNMax

\* an HTTP response: the status code and the JSON body
Response(status_code, body) == Returned([status_code |-> status_code, body |-> body])

\* a refusal that reads as a failure of the handler
RefusedAsServerError == Response(500, [detail |-> "Chatbot not initialized"])

NotInitialized == Response(503, [detail |-> "Chatbot not initialized"])

\* f"{seconds:.3f}s", the time kept in thousandths of a second
FormatSeconds(thousandths) == [text |-> "%.3fs", thousandths |-> thousandths]

\* a get_stats that formats the totals and leaves the averages out
GetStatsTotalsOnly(bot) ==
    [total_queries        |-> bot.stats.total_queries,
     total_retrieval_time |-> FormatSeconds(bot.stats.total_retrieval_time),
     total_api_time       |-> FormatSeconds(bot.stats.total_api_time),
     total_time           |-> FormatSeconds(bot.stats.total_time)]

\* RAGChatbot.get_stats: self.stats itself before the first query, else the
\* count with the averages and the totals formatted
get_stats(bot) ==
    IF bot.stats.total_queries = 0
    THEN bot.stats
    ELSE [total_queries        |-> bot.stats.total_queries,
          avg_retrieval_time   |-> FormatSeconds(RoundDiv(bot.stats.total_retrieval_time,
                                                          bot.stats.total_queries)),
          avg_api_time         |-> FormatSeconds(RoundDiv(bot.stats.total_api_time,
                                                          bot.stats.total_queries)),
          avg_total_time       |-> FormatSeconds(RoundDiv(bot.stats.total_time,
                                                          bot.stats.total_queries)),
          total_retrieval_time |-> FormatSeconds(bot.stats.total_retrieval_time),
          total_api_time       |-> FormatSeconds(bot.stats.total_api_time),
          total_time           |-> FormatSeconds(bot.stats.total_time)]

\* the fields StatsResponse requires
StatsResponseFields ==
    {"total_queries", "avg_retrieval_time", "avg_api_time", "avg_total_time",
     "total_retrieval_time", "total_api_time", "total_time"}

\* StatsResponse(**stats) validates: every required field is given (the raw
\* self.stats lacks the averages, and its totals are numbers, not strings)
ValidStatsResponse(stats) == StatsResponseFields \subseteq DOMAIN stats

\* Source(**source) validates: NCTId and Title are strings
ValidSource(source) == source.NCTId # JsonNull /\ source.Title # JsonNull

\* a reset that leaves the query count as it is
ResetStatsTimesOnly(bot) ==
    [bot EXCEPT !.stats = [NewStats EXCEPT !.total_queries = bot.stats.total_queries]]

\* reset_statistics: chatbot.stats = {four zeros}
ResetStats(bot) == [bot EXCEPT !.stats = NewStats]

\* the chat calls that returned, and the /chat requests answered with 200,
\* since the chatbot was loaded or the statistics were last reset; and the
\* count the last reset set to zero
NoRequests == [returned |-> 0, answered |-> 0, erased |-> 0]

\* a trial the data source gave no identifier (null)
NullIdTrial ==
    [NCTId |-> JsonNull, BriefTitle |-> <<"C", "a", "n", "c", "e", "r", " ", "t", "r", "i", "a", "l">>]

\* the trial lists the served index is built from: two records, the second
\* with or without an identifier
ApiTrialLists ==
    {<<t[1], NullIdTrial>> : t \in ConcTrialLists} \cup ConcTrialLists

ApiQueries == {<<>>, <<"P", "T", "S", "D", " ", "t", "r", "i", "a", "l">>}

ApiNValues == {ChatRequestNMin - 1, ChatRequestNMin, ChatRequestNDefault}

\* lifespan: chatbot = RAGChatbot() at startup; an exception is raised on
lifespan == RAGChatbot_init

\* GET /health
health_check ==
    /\ result' = [op |-> "GET /health", query |-> <<>>, n_results |-> 0,
                  outcome |-> Response(200,
                      [status         |-> IF chatbot # None THEN "healthy" ELSE "unhealthy",
                       chatbot_loaded |-> chatbot # None])]
    /\ UNCHANGED <<json_trials, indexer, files, chatbot>>
    /\ UNCHANGED <<tokVars, extVars>>

\* POST /chat with a body of query and n_results: 422 from the validation of
\* the body, 503 without a chatbot, else chatbot.chat(request.query) and the
\* response models built from what it returns; any exception becomes 500
api_chat(query, n_results, ok, retrieval_time, api_time) ==
    /\ chatbot # None => chatbot.stats.total_queries < MaxQueries
    /\ LET request == [op |-> "POST /chat", query |-> query, n_results |-> n_results,
                       outcome |-> NotInitialized]
       IN  IF ~ValidChatRequest(query, n_results)
           THEN /\ result' = [request EXCEPT !.outcome =
                                 Response(422, [detail |-> "validation error"])]
                /\ UNCHANGED <<chatbot, remembered>>
           ELSE IF chatbot = None
           THEN /\ result' = request
                /\ UNCHANGED <<chatbot, remembered>>
           ELSE LET retrieved  == retrieve_relevant_trials(chatbot, query, DefaultNResults)
                    total_time == retrieval_time + api_time
                    sources    == chat_sources(retrieved.value)
                IN  IF retrieved.raised # "none"
                    THEN /\ result' = [request EXCEPT !.outcome =
                                          Response(500, [detail |-> retrieved.raised])]
                         /\ UNCHANGED <<chatbot, remembered>>
                    ELSE /\ chatbot' = chat_update(chatbot, retrieval_time, api_time, total_time)
                         /\ IF \A k \in 1..Len(sources) : ValidSource(sources[k])
                            THEN /\ result' = [request EXCEPT !.outcome =
                                      Response(200,
                                          [success |-> TRUE,
                                           query   |-> query,
                                           answer  |-> generate_answer(ok),
                                           sources |-> sources,
                                           timing  |-> [retrieval_time |-> FormatSeconds(retrieval_time),
                                                        api_time       |-> FormatSeconds(api_time),
                                                        total_time     |-> FormatSeconds(total_time)]])]
                                 /\ remembered' = [remembered EXCEPT !.returned = @ + 1,
                                                                     !.answered = @ + 1]
                            ELSE /\ result' = [request EXCEPT !.outcome =
                                      Response(500, [detail |-> "ValidationError"])]
                                 /\ remembered' = [remembered EXCEPT !.returned = @ + 1]
    /\ UNCHANGED <<json_trials, indexer, files>>
    /\ UNCHANGED <<tokVars, threads, saving, loading>>

\* GET /stats
get_statistics ==
    /\ result' = [op |-> "GET /stats", query |-> <<>>, n_results |-> 0,
                  outcome |-> IF chatbot = None THEN NotInitialized
                              ELSE IF ValidStatsResponse(get_stats(chatbot))
                                   THEN Response(200, get_stats(chatbot))
                                   ELSE Response(500, [detail |-> "ValidationError"])]
    /\ UNCHANGED <<json_trials, indexer, files, chatbot>>
    /\ UNCHANGED <<tokVars, extVars>>

\* POST /reset-stats
reset_statistics ==
    /\ IF chatbot = None
       THEN /\ result' = [op |-> "POST /reset-stats", query |-> <<>>, n_results |-> 0,
                          outcome |-> NotInitialized]
            /\ UNCHANGED <<chatbot, remembered>>
       ELSE /\ chatbot' = ResetStats(chatbot)
            /\ remembered' = [NoRequests EXCEPT !.erased = chatbot.stats.total_queries]
            /\ result' = [op |-> "POST /reset-stats", query |-> <<>>, n_results |-> 0,
                          outcome |-> Response(200, [success |-> TRUE])]
    /\ UNCHANGED <<json_trials, indexer, files>>
    /\ UNCHANGED <<tokVars, threads, saving, loading>>

ApiChatAny ==
    \E query \in ApiQueries, n_results \in ApiNValues, ok \in BOOLEAN,
       retrieval_time \in SampleTimes, api_time \in SampleTimes :
        api_chat(query, n_results, ok, retrieval_time, api_time)

\* the service process before its startup: the index built and saved, or no
\* file on disk
ApiInit ==
    /\ json_trials \in ApiTrialLists
    /\ indexer = BuiltIndexer(json_trials)
    /\ files \in {save_index(indexer),
                  [bm25_index |-> Absent, tokenized_corpus |-> Absent, trials_data |-> Absent]}
    /\ chatbot = None
    /\ result = NoCall
    /\ text = <<>>
    /\ TokIdle
    /\ tpc = "off"
    /\ remembered = NoRequests
    /\ threads = <<>>
    /\ saving = [pc |-> "idle"]
    /\ loading = [pc |-> "idle"]

ApiNext ==
    \/ lifespan
    \/ health_check
    \/ ApiChatAny
    \/ get_statistics
    \/ reset_statistics

SpecApi == ApiInit /\ [][ApiNext]_vars

\* the response to the last request
StatusCode == result.outcome.value.status_code

Body == result.outcome.value.body

\* the last request was POST /chat and was answered with 200
ChatAnswered == result.op = "POST /chat" /\ StatusCode = 200

\* C22: POST /chat honours the request's n_results: the response to an
\* accepted request with n_results = n holds at most n sources, those of the
\* n highest-ranked trials.
C22_AtMostNSources ==
    ChatAnswered =>
        /\ Len(Body.sources) <= result.n_results
        /\ Body.sources
              = chat_sources(retrieve_relevant_trials(chatbot, result.query,
                                                      result.n_results).value)

\* C23: whenever the chatbot is loaded GET /stats succeeds and returns the
\* total number of queries with the average and the total timing metrics,
\* before the first query and right after POST /reset-stats as well.
C23_StatsAlwaysServed ==
    (result.op = "GET /stats" /\ chatbot # None) =>
        /\ StatusCode = 200
        /\ StatsResponseFields \subseteq DOMAIN Body
        /\ Body.total_queries = chatbot.stats.total_queries

\* GET /stats answered with 500 by a loaded chatbot that counts no query
C23_FailsAfterReset ==
    /\ result.op = "GET /stats"
    /\ chatbot # None
    /\ StatusCode = 500
    /\ chatbot.stats.total_queries = 0

\* the answer of the last response is the text generate_answer returns when
\* the generation call raised
GenerationFailed == Body.answer = generate_answer(FALSE)

\* C24: a failure of the text-generation call reaches the caller as an error
\* outcome that can be told from a successful answer: POST /chat does not
\* answer 200 with success = true and the text in the answer field.
C24_GenerationFailureIsError ==
    (result.op = "POST /chat" /\ StatusCode = 200 /\ GenerationFailed)
        => Body.success = FALSE

\* ------------------------------------------------------------------------
\* create_trial_text on its own: one record in, its text out.
\* ------------------------------------------------------------------------

\* the keys a record is given here: the first, a middle and the last field of
\* the list, the field whose newlines are replaced, and a key not in the list
TextKeys == {"NCTId", "BriefTitle", "EligibilityCriteria", "SecondaryOutcomes", "Acronym"}

TextValues == {<<>>, <<"N", "1">>, <<"a", "\n", "b">>}

TextTrials == UNION {[keys -> TextValues] : keys \in SUBSET TextKeys}

TextInit ==
    /\ \E trial \in TextTrials : json_trials = <<trial>>
    /\ SysInit
    /\ text = <<>>
    /\ TokIdle
    /\ tpc = "trial"
    /\ ExtIdle

\* text = self.create_trial_text(trial)
CreateTrialText ==
    /\ tpc = "trial"
    /\ text' = create_trial_text(json_trials[1])
    /\ tpc' = "text"
    /\ UNCHANGED <<indexer_tokens, chatbot_tokens, rejoined_tokens>>
    /\ UNCHANGED <<sysVars, extVars>>

TextNext == CreateTrialText

SpecText == TextInit /\ [][TextNext]_vars

\* the places in the field list of the fields trial has a value for
PresentFields(trial) ==
    {k \in 1..Len(TrialTextFields) : HasValue(trial, TrialTextFields[k].field)}

\* "Label: value" for field k, the value as it is written
Fragment(trial, k) ==
    TrialTextFields[k].label \o <<":", " ">>
        \o [i \in 1..Len(trial[TrialTextFields[k].field]) |->
               IF TrialTextFields[k].field = "EligibilityCriteria"
                  /\ trial[TrialTextFields[k].field][i] = "\n"
               THEN " " ELSE trial[TrialTextFields[k].field][i]]

\* where the fragment of field k starts in the text
FragmentStart(trial, k) ==
    LET before == {j \in PresentFields(trial) : j < k}
    IN  1 + SumOver(before, [j \in before |-> Len(Fragment(trial, j)) + 1])

GuardedEndpoints == {"POST /chat", "GET /stats", "POST /reset-stats"}

\* C26: while the chatbot is not initialized GET /health reports "unhealthy"
\* with chatbot_loaded = false, and POST /chat, GET /stats and POST
\* /reset-stats answer 503 and touch no state; once the chatbot is loaded
\* /health reports "healthy" with chatbot_loaded = true, and the chatbot never
\* goes back to unloaded.
C26_UnloadedIsRefused ==
    [][/\ (chatbot = None /\ result'.op = "GET /health")
            => /\ result'.outcome.value.body.status = "unhealthy"
               /\ result'.outcome.value.body.chatbot_loaded = FALSE
               /\ chatbot' = None
       /\ (chatbot # None /\ result'.op = "GET /health")
            => /\ result'.outcome.value.body.status = "healthy"
               /\ result'.outcome.value.body.chatbot_loaded = TRUE
       /\ (/\ chatbot = None
           /\ result'.op \in GuardedEndpoints
           /\ result'.op = "POST /chat" => ValidChatRequest(result'.query, result'.n_results))
            => /\ result'.outcome.value.status_code = 503
               /\ UNCHANGED <<json_trials, indexer, files, chatbot, remembered>>
       /\ chatbot # None => chatbot' # None]_vars

\* a request refused for want of the chatbot, on a service whose startup failed
C26_Witness ==
    /\ chatbot = None
    /\ ~files.bm25_index.exists
    /\ result.op = "POST /chat"
    /\ StatusCode = 503

\* the service healthy after its startup
C26_Healthy ==
    /\ chatbot # None
    /\ result.op = "GET /health"
    /\ Body.status = "healthy"

\* C27: POST /reset-stats sets the four counters to zero and leaves the index,
\* the corpus and the trials as they were; from then on total_queries is the
\* number of chat calls completed since, whatever was counted before.
C27_ResetToZero ==
    [][/\ (chatbot # None /\ result'.op = "POST /reset-stats")
            => /\ chatbot'.stats.total_queries = 0
               /\ chatbot'.stats.total_retrieval_time = 0
               /\ chatbot'.stats.total_api_time = 0
               /\ chatbot'.stats.total_time = 0
               /\ chatbot'.bm25 = chatbot.bm25
               /\ chatbot'.tokenized_corpus = chatbot.tokenized_corpus
               /\ chatbot'.trials = chatbot.trials
               /\ remembered'.returned = 0
       /\ chatbot' # None => chatbot'.stats.total_queries = remembered'.returned]_vars

\* one chat counted after a reset that erased a count of MaxQueries
C27_Witness ==
    /\ chatbot # None
    /\ remembered.erased = MaxQueries
    /\ remembered.returned = 1
    /\ chatbot.stats.total_queries = 1
    /\ result.op = "POST /chat"

\* ------------------------------------------------------------------------
\* The methods of a loaded RAGChatbot called one by one, as chatbot.py main
\* and the evaluator call them.
\* ------------------------------------------------------------------------

\* format_context(relevant_trials) on what a retrieval returns
CallFormatContext ==
    /\ chatbot # None
    /\ \E query \in ChatQueries :
          result' = [op |-> "format_context", query |-> query, n_results |-> DefaultNResults,
                     outcome |-> Returned(format_context(
                         retrieve_relevant_trials(chatbot, query, DefaultNResults).value))]
    /\ UNCHANGED <<json_trials, indexer, files, chatbot>>
    /\ UNCHANGED <<tokVars, extVars>>

\* generate_answer(query, context): the answer and the time of the call
CallGenerateAnswer ==
    /\ chatbot # None
    /\ \E query \in ChatQueries, ok \in BOOLEAN, api_time \in SampleTimes :
          result' = [op |-> "generate_answer", query |-> query, n_results |-> 0,
                     outcome |-> Returned([answer |-> generate_answer(ok), api_time |-> api_time])]
    /\ UNCHANGED <<json_trials, indexer, files, chatbot>>
    /\ UNCHANGED <<tokVars, extVars>>

\* get_stats()
CallGetStats ==
    /\ chatbot # None
    /\ result' = [op |-> "get_stats", query |-> <<>>, n_results |-> 0,
                  outcome |-> Returned(get_stats(chatbot))]
    /\ UNCHANGED <<json_trials, indexer, files, chatbot>>
    /\ UNCHANGED <<tokVars, extVars>>

CallsInit ==
    /\ json_trials \in ConcTrialLists
    /\ indexer = BuiltIndexer(json_trials)
    /\ files = save_index(indexer)
    /\ chatbot = LoadedChatbot(json_trials)
    /\ result = [NoCall EXCEPT !.op = "__init__"]
    /\ text = <<>>
    /\ TokIdle
    /\ tpc = "off"
    /\ ExtIdle

CallsNext ==
    \/ ChatAny
    \/ RetrieveSome
    \/ CallFormatContext
    \/ CallGenerateAnswer
    \/ CallGetStats

SpecCalls == CallsInit /\ [][CallsNext]_vars

\* the methods that are not chat
OtherMethods == {"retrieve_relevant_trials", "format_context", "generate_answer", "get_stats"}

\* C28: every chat call that returns adds exactly 1 to total_queries and
\* lowers no cumulative time, also when the generation call fails (chat still
\* returns an answer, sources and timing); retrieve_relevant_trials,
\* format_context, generate_answer and get_stats leave the statistics as
\* they are.
C28_ChatCountsOnce ==
    [][/\ result'.op = "chat"
            => /\ result'.outcome.raised = "none"
               /\ {"answer", "sources", "timing"} \subseteq DOMAIN result'.outcome.value
               /\ chatbot'.stats.total_queries = chatbot.stats.total_queries + 1
               /\ chatbot'.stats.total_retrieval_time >= chatbot.stats.total_retrieval_time
               /\ chatbot'.stats.total_api_time >= chatbot.stats.total_api_time
               /\ chatbot'.stats.total_time >= chatbot.stats.total_time
       /\ result'.op \in OtherMethods => chatbot'.stats = chatbot.stats]_vars

\* a chat whose generation call failed, counted as the last of MaxQueries
C28_Witness ==
    /\ result.op = "chat"
    /\ result.outcome.raised = "none"
    /\ result.outcome.value.answer = generate_answer(FALSE)
    /\ Len(result.outcome.value.sources) = 2
    /\ chatbot.stats.total_queries = MaxQueries
    /\ chatbot.stats.total_api_time > 0

\* C29: total_queries counts only the POST /chat requests answered with 200
\* since the statistics were last zeroed: a request answered with 500 leaves
\* the statistics as they were.
C29_OnlyAnsweredCounted ==
    chatbot # None => chatbot.stats.total_queries = remembered.answered

\* a POST /chat answered with 500 by a chatbot that has counted it
C29_ErrorCounted ==
    /\ chatbot # None
    /\ result.op = "POST /chat"
    /\ result.outcome.value.status_code = 500
    /\ chatbot.stats.total_queries = 1
    /\ remembered.answered = 0

\* ------------------------------------------------------------------------
\* The evaluator's has_source_reference on its own: an answer and a list of
\* sources in, a boolean out.
\* ------------------------------------------------------------------------

\* the characters an answer is written with here: the letters of "NCT" in
\* both cases where the pattern needs them, a digit and a space
EvalChars == {"N", "n", "C", "T", "1", " "}

DigitChars == {"0", "1", "2", "3", "4", "5", "6", "7", "8", "9"}

EvalAnswers == UNION {[1..n -> EvalChars] : n \in 0..MaxTextLen}

\* the source lists given with an answer: none, or the one retrieved trial
EvalSources == {<<>>, <<[NCTId |-> <<"N", "C", "T", "1">>, Title |-> <<"T">>]>>}

\* re.findall(r'NCT\d+', answer, re.IGNORECASE) finds something: the letters
\* n, c, t in either case, followed by a digit
MentionsNct(answer) ==
    \E i \in 1..Len(answer) - 3 :
        /\ lower(SubSeq(answer, i, i + 2)) = <<"n", "c", "t">>
        /\ answer[i + 3] \in DigitChars

\* has_source_reference(answer, sources)
has_source_reference(answer, sources) ==
    LET has_nct     == MentionsNct(answer)
        has_sources == Len(sources) > 0
    IN  has_nct \/ has_sources

EvalInit ==
    /\ json_trials \in EvalSources
    /\ SysInit
    /\ text \in EvalAnswers
    /\ TokIdle
    /\ tpc = "answer"
    /\ ExtIdle

\* has_ref = self.has_source_reference(answer, sources)
HasSourceReference ==
    /\ tpc = "answer"
    /\ result' = [op |-> "has_source_reference", query |-> text, n_results |-> 0,
                  outcome |-> Returned(has_source_reference(text, json_trials))]
    /\ tpc' = "checked"
    /\ UNCHANGED <<json_trials, indexer, files, chatbot, text>>
    /\ UNCHANGED <<indexer_tokens, chatbot_tokens, rejoined_tokens>>
    /\ UNCHANGED extVars

EvalNext == HasSourceReference

SpecEval == EvalInit /\ [][EvalNext]_vars

\* C30: has_source_reference is true only if the answer mentions an NCT
\* identifier; an answer without one is never counted as referenced because
\* sources were retrieved.
C30_ReferencedOnlyIfCited ==
    (tpc = "checked" /\ result.outcome.value) => MentionsNct(text)

\* an answer of spaces, with one retrieved source, counted as referenced
C30_UncitedCounted ==
    /\ tpc = "checked"
    /\ text = <<" ", " ">>
    /\ Len(json_trials) = 1
    /\ result.outcome.value

\* an answer that mentions an identifier in lower case, given no sources,
\* counted as referenced
C30_CitedCounted ==
    /\ tpc = "checked"
    /\ text = <<"n", "C", "T", "1">>
    /\ json_trials = <<>>
    /\ result.outcome.value

====
